---- MODULE Spec2Model ----
(***************************************************************************)
(* Model of the slide detection pipeline of yt-video-to-doc:               *)
(* AdvancedSlideDetector (src/services/slide-detector-advanced.ts) fed by  *)
(* the frames of FrameExtractor (src/services/frame-extractor.ts).         *)
(*                                                                         *)
(* Numbers.  Scores are held in thousandths (0.9 is 900, 0.15 is 150) and  *)
(* times in ticks, TicksPerSecond ticks to the second, so that every       *)
(* comparison of the code is an exact integer comparison here.  Arrays are *)
(* 0-based in the code and 1-based here: At(s, i) is s[i] of the code.     *)
(***************************************************************************)
EXTENDS Integers, Sequences, FiniteSets, TLC

VARIABLES pc, frames, threshold, minSlideFrames, i, differences, threw,
          boundaries, slides, result, again, progressCalls,
          retry, timeout, ocr, backoff, cleanup, guarded, job

vars == <<pc, frames, threshold, minSlideFrames, i, differences, threw,
          boundaries, slides, result, again, progressCalls,
          retry, timeout, ocr, backoff, cleanup, guarded, job>>

\* The state of the utilities and of the other services, which the slide
\* detector does not touch.
outsideDetector == <<retry, timeout, ocr, backoff, cleanup, guarded, job>>

\* The state of getRetryDelay, the cleanup service, withCleanup and the video
\* processor, which withRetry, withTimeout and the OCR service do not touch.
otherServices == <<backoff, cleanup, guarded, job>>

(* ---------------------------- bounds ---------------------------------- *)

\* Longest frame sequence of the pipeline specification.
MaxFrames == 8

\* Resolution of time: ticks per second.
TicksPerSecond == 4

\* At most this many pair comparisons throw in one scan.
MaxThrows == 1

\* Longest frame sequence of the assembly specification.
MaxAsmFrames == 5

\* Largest maxRetries option of the retry specification.
MaxRetriesOption == 3

\* Largest timeoutMs of the timeout specification, in clock ticks.
MaxTimeoutMs == 3

\* Largest attempt number of the backoff specification.
MaxBackoffAttempt == 10

\* Math.random() takes the values 0, 1/RandomSteps, ..., (RandomSteps - 1)/RandomSteps.
RandomSteps == 4

\* Most items of the temp directory of the cleanup specification.
MaxTempItems == 2

\* Most progress callbacks of one stage of the video processor.
MaxStageCallbacks == 2

\* Longest frame sequence behind the slides of the OCR specification.
MaxOcrFrames == 6

\* Largest MAX_CONCURRENT_OCR of the OCR specification.
MaxConcurrentOcr == 2

(* ------------------------ program constants --------------------------- *)

\* constructor default threshold = 0.15, in thousandths
DefaultThreshold == 150

\* constructor default minSlideFrames = 1
DefaultMinSlideFrames == 1

\* const windowSize = 3
windowSize == 3

\* A boundary list not computed yet; findSlideBoundaries never returns it,
\* every list it returns holds 0.
NotComputed == <<>>

\* Scores the pair comparison can return, in thousandths: identical frames,
\* a small change below 0.4 * 0.15, and a large change.
ScoreValues == {0, 50, 900}

\* Sampling intervals in ticks: a tick (below one second) and one second.
Intervals == {1, TicksPerSecond}

\* Gaps between consecutive frames of the assembly specification, in ticks:
\* equal timestamps, a tick, one second.
Gaps == {0, 1, TicksPerSecond}

\* minSlideFrames values of the assembly specification.
MinSlideFramesValues == {DefaultMinSlideFrames, DefaultMinSlideFrames + 1}

(* --------------------------- helpers ---------------------------------- *)

Max(a, b) == IF a >= b THEN a ELSE b

Min(a, b) == IF a <= b THEN a ELSE b

\* s[i] of the code (0-based)
At(s, k) == s[k + 1]

\* Array.prototype.slice(a, b): the elements a .. b-1, clipped to the array
Slice(s, a, b) == SubSeq(s, Max(a, 0) + 1, Min(b, Len(s)))

RECURSIVE Insert(_, _)
Insert(x, s) ==
  IF s = <<>> THEN <<x>>
  ELSE IF x <= Head(s) THEN <<x>> \o s
       ELSE <<Head(s)>> \o Insert(x, Tail(s))

\* [...a].sort((a, b) => a - b): a sorted copy
RECURSIVE SortAscending(_)
SortAscending(s) == IF s = <<>> THEN <<>> ELSE Insert(Head(s), SortAscending(Tail(s)))

\* Math.max(...window) of a non-empty window
RECURSIVE SeqMax(_)
SeqMax(s) == IF Len(s) = 1 THEN s[1] ELSE Max(Head(s), SeqMax(Tail(s)))

\* [...new Set(a)]: the first occurrence of every element, in order
RECURSIVE Unique(_)
Unique(s) ==
  IF s = <<>> THEN <<>>
  ELSE LET r == Unique(SubSeq(s, 1, Len(s) - 1))
           x == s[Len(s)]
       IN IF \E k \in 1..Len(r) : r[k] = x THEN r ELSE Append(r, x)

(* ------------------------- frame extractor ---------------------------- *)

\* frames.push({ timestamp: i * interval, imagePath, frameNumber: i })
ExtractedFrames(n, interval) ==
  [k \in 1..n |-> [timestamp |-> (k - 1) * interval, frameNumber |-> k - 1]]

(* ------------------------ findSlideBoundaries ------------------------- *)

\* sortedDiffs[Math.floor(sortedDiffs.length * 0.25)]
percentile25(d) == At(SortAscending(d), Len(d) \div 4)

\* The smaller of the two terms instead of the larger.
activeThreshold10Min(d, th) == Min(4 * th, 20 * percentile25(d))

\* Ten times thresholds.veryAggressive = Math.max(threshold * 0.4, p25 * 2)
activeThreshold10(d, th) == Max(4 * th, 20 * percentile25(d))

\* differences[i] > activeThreshold.  With no differences percentile25 is
\* undefined and the threshold NaN, and no comparison with NaN is true.
Exceeds(score, d, th) == d # <<>> /\ 10 * score > activeThreshold10(d, th)

\* The peak loop: for (i = windowSize; i < differences.length - windowSize; i++)
RECURSIVE PeakLoop(_, _, _, _)
PeakLoop(d, th, k, b) ==
  IF k >= Len(d) - windowSize THEN b
  ELSE LET centerValue  == At(d, k)
           windowMax    == SeqMax(Slice(d, k - windowSize, k + windowSize + 1))
           lastBoundary == b[Len(b)]
       IN IF centerValue = windowMax /\ Exceeds(centerValue, d, th)
             /\ k + 1 - lastBoundary >= 1
          THEN PeakLoop(d, th, k + 1, Append(b, k + 1))
          ELSE PeakLoop(d, th, k + 1, b)

\* The sustained loop: for (i = 0; i < differences.length; i++)
RECURSIVE SustainedLoop(_, _, _, _, _)
SustainedLoop(d, th, k, highDiffStart, b) ==
  IF k >= Len(d) THEN b
  ELSE IF Exceeds(At(d, k), d, th)
       THEN SustainedLoop(d, th, k + 1,
                          IF highDiffStart = -1 THEN k ELSE highDiffStart, b)
       ELSE IF highDiffStart # -1
            THEN LET midPoint     == (highDiffStart + k) \div 2
                     lastBoundary == b[Len(b)]
                 IN IF midPoint + 1 - lastBoundary >= 2
                       /\ ~ (\E j \in 1..Len(b) : b[j] = midPoint + 1)
                    THEN SustainedLoop(d, th, k + 1, -1, Append(b, midPoint + 1))
                    ELSE SustainedLoop(d, th, k + 1, -1, b)
            ELSE SustainedLoop(d, th, k + 1, -1, b)

\* if (unique[unique.length - 1] !== differences.length) unique.push(differences.length)
AddSentinel(u, d) == IF u[Len(u)] # Len(d) THEN Append(u, Len(d)) ELSE u

findSlideBoundaries(d, th) ==
  LET peaks     == PeakLoop(d, th, windowSize, <<0>>)
      sustained == SustainedLoop(d, th, 0, -1, peaks)
  IN AddSentinel(Unique(SortAscending(sustained)), d)

(* --------------------- createSlidesFromBoundaries --------------------- *)

\* Mutant of SlideFrames: the end index taken as inclusive.
SlideFramesInclusive(f, start, end) == Slice(f, start, end + 1)

\* frames.slice(start, end)
SlideFrames(f, start, end) == Slice(f, start, end)

\* Mutant of NewSlide: startTime and endTime exchanged.
NewSlideSwapped(slideFrames) ==
  [startTime |-> slideFrames[Len(slideFrames)].timestamp,
   endTime   |-> slideFrames[1].timestamp,
   frames    |-> slideFrames]

\* slides.push({ startTime: slideFrames[0].timestamp,
\*               endTime: slideFrames[slideFrames.length - 1].timestamp,
\*               frames: slideFrames, ocrResults: [], primaryText: '' })
NewSlide(slideFrames) ==
  [startTime |-> slideFrames[1].timestamp,
   endTime   |-> slideFrames[Len(slideFrames)].timestamp,
   frames    |-> slideFrames]

\* Mutant of CreateLoop: the filter written with > instead of >=.
RECURSIVE CreateLoopStrict(_, _, _, _, _)
CreateLoopStrict(f, b, msf, k, acc) ==
  IF k >= Len(b) - 1 THEN acc
  ELSE LET slideFrames == SlideFrames(f, At(b, k), At(b, k + 1))
       IN IF Len(slideFrames) > msf
          THEN CreateLoopStrict(f, b, msf, k + 1, Append(acc, NewSlide(slideFrames)))
          ELSE CreateLoopStrict(f, b, msf, k + 1, acc)

RECURSIVE CreateLoop(_, _, _, _, _)
CreateLoop(f, b, msf, k, acc) ==
  IF k >= Len(b) - 1 THEN acc
  ELSE LET slideFrames == SlideFrames(f, At(b, k), At(b, k + 1))
       IN IF Len(slideFrames) >= msf
          THEN CreateLoop(f, b, msf, k + 1, Append(acc, NewSlide(slideFrames)))
          ELSE CreateLoop(f, b, msf, k + 1, acc)

createSlidesFromBoundaries(f, b, msf) == CreateLoop(f, b, msf, 0, <<>>)

(* -------------------------- mergeShortSlides -------------------------- *)

\* duration < 1 (one second)
IsShort(s) == s.endTime - s.startTime < TicksPerSecond

\* Mutant of MergedSlide: the frames of the second slide are lost.
MergedSlideDropsFrames(current, next) ==
  [startTime |-> current.startTime,
   endTime   |-> next.endTime,
   frames    |-> current.frames]

\* Mutant of MergedSlide: the endTime of the first slide is kept.
MergedSlideKeepsEnd(current, next) ==
  [startTime |-> current.startTime,
   endTime   |-> current.endTime,
   frames    |-> current.frames \o next.frames]

\* The merged slide: startTime of the first, endTime of the second, the frames
\* of the first followed by the frames of the second.
MergedSlide(current, next) ==
  [startTime |-> current.startTime,
   endTime   |-> next.endTime,
   frames    |-> current.frames \o next.frames]

\* Mutant of MergeLoop: the guard i < slides.length - 1 written with 2, so
\* that the last two slides are never merged.
RECURSIVE MergeLoopOffByOne(_, _, _)
MergeLoopOffByOne(s, k, merged) ==
  IF k >= Len(s) THEN merged
  ELSE LET current == At(s, k)
       IN IF IsShort(current) /\ k < Len(s) - 2 /\ IsShort(At(s, k + 1))
          THEN MergeLoopOffByOne(s, k + 2,
                                 Append(merged, MergedSlide(current, At(s, k + 1))))
          ELSE MergeLoopOffByOne(s, k + 1, Append(merged, current))

RECURSIVE MergeLoop(_, _, _)
MergeLoop(s, k, merged) ==
  IF k >= Len(s) THEN merged
  ELSE LET current == At(s, k)
       IN IF IsShort(current) /\ k < Len(s) - 1 /\ IsShort(At(s, k + 1))
          THEN MergeLoop(s, k + 2, Append(merged, MergedSlide(current, At(s, k + 1))))
          ELSE MergeLoop(s, k + 1, Append(merged, current))

mergeShortSlides(s) == MergeLoop(s, 0, <<>>)

\* slide.frames[Math.floor(slide.frames.length / 2)]
getMostRepresentativeFrame(slide) == At(slide.frames, Len(slide.frames) \div 2)

(* ------------------------- idle subsystems ---------------------------- *)

\* withRetry not called.
RetryIdle == [pc |-> "idle"]

\* withTimeout not called.
TimeoutIdle == [pc |-> "idle"]

\* processSlides not called.
OcrIdle == [pc |-> "idle"]

\* getRetryDelay not called.
BackoffIdle == [pc |-> "idle"]

\* No CleanupService constructed.
CleanupIdle == [pc |-> "idle"]

\* withCleanup not called.
GuardedIdle == [pc |-> "idle"]

\* processVideo not called.
JobIdle == [pc |-> "idle"]

\* None of the four is in use.
ServicesIdle ==
  /\ backoff = BackoffIdle
  /\ cleanup = CleanupIdle
  /\ guarded = GuardedIdle
  /\ job = JobIdle

(* ------------------------------ state --------------------------------- *)

Init ==
  /\ pc = "start"
  /\ frames \in {ExtractedFrames(n, iv) : n \in 0..MaxFrames, iv \in Intervals}
  /\ threshold = DefaultThreshold
  /\ minSlideFrames = DefaultMinSlideFrames
  /\ i = 0
  /\ differences = <<>>
  /\ threw = {}
  /\ boundaries = NotComputed
  /\ slides = <<>>
  /\ result = <<>>
  /\ again = NotComputed
  /\ progressCalls = 0
  /\ retry = RetryIdle
  /\ timeout = TimeoutIdle
  /\ ocr = OcrIdle
  /\ ServicesIdle

\* Mutant of DetectSlidesEmpty: the empty result is reported through the
\* final onProgress(60) like every other result.
DetectSlidesEmptyReports ==
  /\ pc = "start"
  /\ Len(frames) = 0
  /\ result' = <<>>
  /\ pc' = "done"
  /\ progressCalls' = progressCalls + 1
  /\ UNCHANGED <<frames, threshold, minSlideFrames, i, differences, threw,
                 boundaries, slides, again>>
  /\ UNCHANGED outsideDetector

\* detectSlides: if (frames.length === 0) return [];
DetectSlidesEmpty ==
  /\ pc = "start"
  /\ Len(frames) = 0
  /\ result' = <<>>
  /\ pc' = "done"
  /\ UNCHANGED <<frames, threshold, minSlideFrames, i, differences, threw,
                 boundaries, slides, again, progressCalls>>
  /\ UNCHANGED outsideDetector

\* detectSlides calls calculateFrameDifferences: differences = [], i = 1
StartScoring ==
  /\ pc = "start"
  /\ Len(frames) > 0
  /\ pc' = "scoring"
  /\ i' = 1
  /\ differences' = <<>>
  /\ UNCHANGED <<frames, threshold, minSlideFrames, threw, boundaries, slides,
                 result, again, progressCalls>>
  /\ UNCHANGED outsideDetector

\* One iteration of the scan whose comparison returns the weighted difference.
ScorePair ==
  /\ pc = "scoring"
  /\ i < Len(frames)
  /\ \E diff \in ScoreValues : differences' = Append(differences, diff)
  /\ i' = i + 1
  /\ progressCalls' = IF i % 10 = 0 THEN progressCalls + 1 ELSE progressCalls
  /\ UNCHANGED <<pc, frames, threshold, minSlideFrames, threw, boundaries,
                 slides, result, again>>
  /\ UNCHANGED outsideDetector

\* Mutant of ScorePairThrows: the failed pair is skipped, nothing is pushed.
ScorePairThrowsSkips ==
  /\ pc = "scoring"
  /\ i < Len(frames)
  /\ Cardinality(threw) < MaxThrows
  /\ threw' = threw \cup {i}
  /\ i' = i + 1
  /\ progressCalls' = IF i % 10 = 0 THEN progressCalls + 1 ELSE progressCalls
  /\ UNCHANGED <<pc, frames, threshold, minSlideFrames, differences, boundaries,
                 slides, result, again>>
  /\ UNCHANGED outsideDetector

\* One iteration whose image read or comparison throws: the catch returns 0.
ScorePairThrows ==
  /\ pc = "scoring"
  /\ i < Len(frames)
  /\ Cardinality(threw) < MaxThrows
  /\ differences' = Append(differences, 0)
  /\ threw' = threw \cup {i}
  /\ i' = i + 1
  /\ progressCalls' = IF i % 10 = 0 THEN progressCalls + 1 ELSE progressCalls
  /\ UNCHANGED <<pc, frames, threshold, minSlideFrames, boundaries, slides,
                 result, again>>
  /\ UNCHANGED outsideDetector

\* Mutant of FindSlideBoundaries: the call stores the active threshold in
\* this.threshold.
FindSlideBoundariesCaching ==
  /\ pc = "scoring"
  /\ i >= Len(frames)
  /\ boundaries' = findSlideBoundaries(differences, threshold)
  /\ threshold' = IF differences = <<>> THEN threshold
                  ELSE activeThreshold10(differences, threshold) \div 10
  /\ pc' = "bounded"
  /\ progressCalls' = progressCalls + 1
  /\ UNCHANGED <<frames, minSlideFrames, i, differences, threw, slides, result,
                 again>>
  /\ UNCHANGED outsideDetector

\* The scan returns and detectSlides calls findSlideBoundaries(differences).
FindSlideBoundaries ==
  /\ pc = "scoring"
  /\ i >= Len(frames)
  /\ boundaries' = findSlideBoundaries(differences, threshold)
  /\ pc' = "bounded"
  /\ progressCalls' = progressCalls + 1
  /\ UNCHANGED <<frames, threshold, minSlideFrames, i, differences, threw,
                 slides, result, again>>
  /\ UNCHANGED outsideDetector

\* detectSlides calls createSlidesFromBoundaries(frames, boundaries).
CreateSlides ==
  /\ pc = "bounded"
  /\ slides' = createSlidesFromBoundaries(frames, boundaries, minSlideFrames)
  /\ pc' = "assembled"
  /\ progressCalls' = progressCalls + 1
  /\ UNCHANGED <<frames, threshold, minSlideFrames, i, differences, threw,
                 boundaries, result, again>>
  /\ UNCHANGED outsideDetector

\* detectSlides calls mergeShortSlides(slides) and returns the result.
MergeShortSlides ==
  /\ pc = "assembled"
  /\ result' = mergeShortSlides(slides)
  /\ pc' = "done"
  /\ progressCalls' = progressCalls + 1
  /\ UNCHANGED <<frames, threshold, minSlideFrames, i, differences, threw,
                 boundaries, slides, again>>
  /\ UNCHANGED outsideDetector

\* A second findSlideBoundaries on the same detector and the same scores.
FindSlideBoundariesAgain ==
  /\ pc = "done"
  /\ boundaries # NotComputed
  /\ again = NotComputed
  /\ again' = findSlideBoundaries(differences, threshold)
  /\ UNCHANGED <<pc, frames, threshold, minSlideFrames, i, differences, threw,
                 boundaries, slides, result, progressCalls>>
  /\ UNCHANGED outsideDetector

Next ==
  \/ DetectSlidesEmpty
  \/ StartScoring
  \/ ScorePair
  \/ ScorePairThrows
  \/ FindSlideBoundaries
  \/ CreateSlides
  \/ MergeShortSlides
  \/ FindSlideBoundariesAgain

Spec == Init /\ [][Next]_vars

(* ------------------- the assembly specification ----------------------- *)
(* createSlidesFromBoundaries and mergeShortSlides as functions of their   *)
(* arguments: every frame list with non-decreasing timestamps, every       *)
(* strictly increasing boundary list that starts at 0 and stays within the *)
(* frame list, minSlideFrames 1 and 2.                                     *)

RECURSIVE GapSeqs(_)
GapSeqs(n) ==
  IF n = 0 THEN {<<>>} ELSE {Append(g, x) : g \in GapSeqs(n - 1), x \in Gaps}

RECURSIVE SumSeq(_)
SumSeq(g) == IF g = <<>> THEN 0 ELSE Head(g) + SumSeq(Tail(g))

\* Frames whose timestamps are the running sums of the gaps g.
FramesFromGaps(g) ==
  [k \in 1..(Len(g) + 1) |->
     [timestamp |-> SumSeq(SubSeq(g, 1, k - 1)), frameNumber |-> k - 1]]

SetMin(S) == CHOOSE x \in S : \A y \in S : x <= y

RECURSIVE Ascending(_)
Ascending(S) ==
  IF S = {} THEN <<>> ELSE <<SetMin(S)>> \o Ascending(S \ {SetMin(S)})

\* The strictly increasing lists over 0..n that start at 0 and have a second
\* element.
BoundaryLists(n) == {Ascending({0} \cup S) : S \in (SUBSET (1..n)) \ {{}}}

InitAssemble ==
  /\ pc = "bounded"
  /\ frames \in {FramesFromGaps(g) : g \in UNION {GapSeqs(n) : n \in 0..(MaxAsmFrames - 1)}}
  /\ boundaries \in BoundaryLists(Len(frames))
  /\ minSlideFrames \in MinSlideFramesValues
  /\ threshold = DefaultThreshold
  /\ i = 0
  /\ differences = <<>>
  /\ threw = {}
  /\ slides = <<>>
  /\ result = <<>>
  /\ again = NotComputed
  /\ progressCalls = 0
  /\ retry = RetryIdle
  /\ timeout = TimeoutIdle
  /\ ocr = OcrIdle
  /\ ServicesIdle

NextAssemble ==
  \/ CreateSlides
  \/ MergeShortSlides

SpecAssemble == InitAssemble /\ [][NextAssemble]_vars

(* ------------------------------ withRetry ----------------------------- *)
(* retry is the state of one withRetry call: the options, the loop counter *)
(* attempt, lastError, and the history of what it called: fnCalls and      *)
(* settled for fn, shouldRetryLog and onRetryLog for the two callbacks.    *)
(* The k-th invocation of fn settles with the value or the thrown value of *)
(* identity k; a thrown value is an Error instance or not.                 *)

\* let lastError: Error | undefined
NoError == [id |-> 0, instanceOfError |-> FALSE, fromString |-> FALSE]

\* new Error("Retry failed with unknown error")
UnknownError == [id |-> -1, instanceOfError |-> TRUE, fromString |-> FALSE]

\* What the k-th invocation of fn throws.
Thrown(k, isError) == [id |-> k, instanceOfError |-> isError, fromString |-> FALSE]

\* error instanceof Error ? error : new Error(String(error))
AsError(e) ==
  IF e.instanceOfError THEN e
  ELSE [id |-> e.id, instanceOfError |-> TRUE, fromString |-> TRUE]

\* Giving up one attempt before maxRetries.
GivesUpEarly(attempt, maxRetries, shouldRetryReturns) ==
  attempt >= maxRetries - 1 \/ ~ shouldRetryReturns

\* attempt === maxRetries || !shouldRetry(lastError, attempt)
GivesUp(attempt, maxRetries, shouldRetryReturns) ==
  attempt = maxRetries \/ ~ shouldRetryReturns

\* shouldRetry called with the number of the call before the failed one.
ShouldRetryCallZeroBased(error, attempt, returned) ==
  [error |-> error, attempt |-> attempt - 1, returned |-> returned]

\* shouldRetry(lastError, attempt) and what it returned
ShouldRetryCall(error, attempt, returned) ==
  [error |-> error, attempt |-> attempt, returned |-> returned]

\* onRetry(lastError, attempt)
OnRetryCall(error, attempt) == [error |-> error, attempt |-> attempt]

\* The maxRetries options of the retry specification: none and negative too.
RetryOptions == (-1)..MaxRetriesOption

RetryStart(maxRetries, hasOnRetry) ==
  [pc             |-> "loop",
   maxRetries     |-> maxRetries,
   hasOnRetry     |-> hasOnRetry,
   attempt        |-> 1,
   lastError      |-> NoError,
   fnCalls        |-> 0,
   settled        |-> <<>>,
   shouldRetryLog |-> <<>>,
   onRetryLog     |-> <<>>,
   outcome        |-> [kind |-> "pending", value |-> 0, error |-> NoError]]

\* for (...; attempt <= maxRetries; ...) { try { return await fn();
RetryCallFn ==
  /\ retry.pc = "loop"
  /\ retry.attempt <= retry.maxRetries
  /\ retry' = [retry EXCEPT !.pc = "calling", !.fnCalls = @ + 1]
  /\ UNCHANGED <<pc, frames, threshold, minSlideFrames, i, differences, threw,
                 boundaries, slides, result, again, progressCalls, timeout, ocr>>
  /\ UNCHANGED otherServices

\* fn resolves and the loop goes on instead of returning.
RetryFnResolvesContinues ==
  /\ retry.pc = "calling"
  /\ retry' = [retry EXCEPT
                 !.pc = IF retry.attempt < retry.maxRetries THEN "delay" ELSE "resolved",
                 !.settled = Append(@, [ok |-> TRUE, id |-> retry.fnCalls]),
                 !.outcome = [kind |-> "resolved", value |-> retry.fnCalls,
                              error |-> NoError]]
  /\ UNCHANGED <<pc, frames, threshold, minSlideFrames, i, differences, threw,
                 boundaries, slides, result, again, progressCalls, timeout, ocr>>
  /\ UNCHANGED otherServices

\* fn resolves: return await fn()
RetryFnResolves ==
  /\ retry.pc = "calling"
  /\ retry' = [retry EXCEPT
                 !.pc = "resolved",
                 !.settled = Append(@, [ok |-> TRUE, id |-> retry.fnCalls]),
                 !.outcome = [kind |-> "resolved", value |-> retry.fnCalls,
                              error |-> NoError]]
  /\ UNCHANGED <<pc, frames, threshold, minSlideFrames, i, differences, threw,
                 boundaries, slides, result, again, progressCalls, timeout, ocr>>
  /\ UNCHANGED otherServices

\* fn rejects: the catch block up to its throw or to the await of the delay.
RetryFnRejects ==
  /\ retry.pc = "calling"
  /\ \E isError \in BOOLEAN, shouldRetryReturns \in BOOLEAN :
       LET lastError == AsError(Thrown(retry.fnCalls, isError))
           asked     == retry.attempt # retry.maxRetries
           log       == IF asked
                        THEN Append(retry.shouldRetryLog,
                                    ShouldRetryCall(lastError, retry.attempt,
                                                    shouldRetryReturns))
                        ELSE retry.shouldRetryLog
           caught    == [retry EXCEPT
                           !.lastError = lastError,
                           !.settled = Append(@, [ok |-> FALSE, id |-> retry.fnCalls]),
                           !.shouldRetryLog = log]
       IN /\ (~ asked) => shouldRetryReturns
          /\ IF GivesUp(retry.attempt, retry.maxRetries, shouldRetryReturns)
             THEN retry' = [caught EXCEPT
                              !.pc = "rejected",
                              !.outcome = [kind |-> "rejected", value |-> 0,
                                           error |-> lastError]]
             ELSE retry' = [caught EXCEPT
                              !.pc = "delay",
                              !.onRetryLog =
                                 IF retry.hasOnRetry
                                 THEN Append(@, OnRetryCall(lastError, retry.attempt))
                                 ELSE @]
  /\ UNCHANGED <<pc, frames, threshold, minSlideFrames, i, differences, threw,
                 boundaries, slides, result, again, progressCalls, timeout, ocr>>
  /\ UNCHANGED otherServices

\* The delay elapses: attempt++
RetryDelayElapses ==
  /\ retry.pc = "delay"
  /\ retry' = [retry EXCEPT !.pc = "loop", !.attempt = @ + 1]
  /\ UNCHANGED <<pc, frames, threshold, minSlideFrames, i, differences, threw,
                 boundaries, slides, result, again, progressCalls, timeout, ocr>>
  /\ UNCHANGED otherServices

\* The loop ends: throw lastError || new Error("Retry failed with unknown error")
RetryLoopEnds ==
  /\ retry.pc = "loop"
  /\ retry.attempt > retry.maxRetries
  /\ retry' = [retry EXCEPT
                 !.pc = "rejected",
                 !.outcome = [kind |-> "rejected", value |-> 0,
                              error |-> IF retry.lastError # NoError
                                        THEN retry.lastError ELSE UnknownError]]
  /\ UNCHANGED <<pc, frames, threshold, minSlideFrames, i, differences, threw,
                 boundaries, slides, result, again, progressCalls, timeout, ocr>>
  /\ UNCHANGED otherServices

\* The detector is not running.
DetectorIdle ==
  /\ pc = "idle"
  /\ frames = <<>>
  /\ threshold = DefaultThreshold
  /\ minSlideFrames = DefaultMinSlideFrames
  /\ i = 0
  /\ differences = <<>>
  /\ threw = {}
  /\ boundaries = NotComputed
  /\ slides = <<>>
  /\ result = <<>>
  /\ again = NotComputed
  /\ progressCalls = 0

InitRetry ==
  /\ DetectorIdle
  /\ retry \in {RetryStart(n, h) : n \in RetryOptions, h \in BOOLEAN}
  /\ timeout = TimeoutIdle
  /\ ocr = OcrIdle
  /\ ServicesIdle

NextRetry ==
  \/ RetryCallFn
  \/ RetryFnResolves
  \/ RetryFnRejects
  \/ RetryDelayElapses
  \/ RetryLoopEnds

SpecRetry == InitRetry /\ [][NextRetry]_vars

(* ----------------------------- withTimeout ---------------------------- *)
(* timeout is the state of one withTimeout call on a clock now that counts *)
(* elapsed ticks.  fn is given by what it does when called (fnDoes): it    *)
(* returns a promise that resolves or rejects fnAt ticks later or never,   *)
(* or it throws before returning a promise.  timer is the setTimeout timer *)
(* that timeoutId names; settlements counts how often the returned promise *)
(* was settled and unhandled says that timeoutPromise rejected with nobody *)
(* awaiting it.                                                            *)

\* The behaviours of fn.
FnBehaviours == {"resolves", "rejects", "never", "throws"}

\* errorMessage = "Operation timed out"
ErrorMessages == {"Operation timed out", "Custom timeout"}

\* The last tick of the clock: every timer has fired by then.
LastTick == MaxTimeoutMs + 1

TimeoutStart(timeoutMs, errorMessage, fnDoes, fnAt) ==
  [pc           |-> "start",
   timeoutMs    |-> timeoutMs,
   errorMessage |-> errorMessage,
   fnDoes       |-> fnDoes,
   fnAt         |-> fnAt,
   now          |-> 0,
   fnStarts     |-> 0,
   fnState      |-> "not started",
   timer        |-> "none",
   settlements  |-> 0,
   unhandled    |-> FALSE,
   outcome      |-> [kind |-> "pending", from |-> "none", message |-> ""]]

\* What fn's promise settles the race with.
FnOutcome(fnDoes) ==
  [kind    |-> IF fnDoes = "resolves" THEN "resolved" ELSE "rejected",
   from    |-> "fn",
   message |-> ""]

\* reject(new Error(errorMessage))
TimeoutError(errorMessage) ==
  [kind |-> "rejected", from |-> "timer", message |-> errorMessage]

\* if (timeoutId) clearTimeout(timeoutId)
ClearTimeout(timer) == IF timer = "armed" THEN "cleared" ELSE timer

\* The call: the timer is set, fn is called and the race is awaited; an fn
\* that throws leaves withTimeout before the try block.
TimeoutCall ==
  /\ timeout.pc = "start"
  /\ IF timeout.fnDoes = "throws"
     THEN timeout' = [timeout EXCEPT
                        !.pc = "rejected",
                        !.timer = "armed",
                        !.fnStarts = @ + 1,
                        !.fnState = "threw",
                        !.settlements = @ + 1,
                        !.outcome = FnOutcome(timeout.fnDoes)]
     ELSE timeout' = [timeout EXCEPT
                        !.pc = "racing",
                        !.timer = "armed",
                        !.fnStarts = @ + 1,
                        !.fnState = "pending"]
  /\ UNCHANGED <<pc, frames, threshold, minSlideFrames, i, differences, threw,
                 boundaries, slides, result, again, progressCalls, retry, ocr>>
  /\ UNCHANGED otherServices

\* fn's promise settles; if the race is still open it decides it and the
\* continuation of the await clears the timer.
TimeoutFnSettles ==
  /\ timeout.fnState = "pending"
  /\ timeout.fnDoes \in {"resolves", "rejects"}
  /\ timeout.now = timeout.fnAt
  /\ IF timeout.pc = "racing"
     THEN timeout' = [timeout EXCEPT
                        !.pc = FnOutcome(timeout.fnDoes).kind,
                        !.fnState = "settled",
                        !.timer = ClearTimeout(@),
                        !.settlements = @ + 1,
                        !.outcome = FnOutcome(timeout.fnDoes)]
     ELSE timeout' = [timeout EXCEPT !.fnState = "settled"]
  /\ UNCHANGED <<pc, frames, threshold, minSlideFrames, i, differences, threw,
                 boundaries, slides, result, again, progressCalls, retry, ocr>>
  /\ UNCHANGED otherServices

\* The timer fires: timeoutPromise rejects; if the race is still open it
\* decides it and the catch block calls clearTimeout on the fired timer.
TimeoutTimerFires ==
  /\ timeout.timer = "armed"
  /\ timeout.now >= timeout.timeoutMs
  /\ IF timeout.pc = "racing"
     THEN timeout' = [timeout EXCEPT
                        !.pc = "rejected",
                        !.timer = ClearTimeout("fired"),
                        !.settlements = @ + 1,
                        !.outcome = TimeoutError(timeout.errorMessage)]
     ELSE timeout' = [timeout EXCEPT !.timer = "fired", !.unhandled = TRUE]
  /\ UNCHANGED <<pc, frames, threshold, minSlideFrames, i, differences, threw,
                 boundaries, slides, result, again, progressCalls, retry, ocr>>
  /\ UNCHANGED otherServices

\* The clock advances when nothing is due.
TimeoutTick ==
  /\ timeout.pc # "start"
  /\ timeout.now < LastTick
  /\ ~ (timeout.timer = "armed" /\ timeout.now >= timeout.timeoutMs)
  /\ ~ (/\ timeout.fnState = "pending"
        /\ timeout.fnDoes \in {"resolves", "rejects"}
        /\ timeout.now = timeout.fnAt)
  /\ timeout' = [timeout EXCEPT !.now = @ + 1]
  /\ UNCHANGED <<pc, frames, threshold, minSlideFrames, i, differences, threw,
                 boundaries, slides, result, again, progressCalls, retry, ocr>>
  /\ UNCHANGED otherServices

InitTimeout ==
  /\ DetectorIdle
  /\ retry = RetryIdle
  /\ timeout \in {TimeoutStart(t, m, d, a) :
                    t \in 1..MaxTimeoutMs, m \in ErrorMessages,
                    d \in FnBehaviours, a \in 0..LastTick}
  /\ ocr = OcrIdle
  /\ ServicesIdle

NextTimeout ==
  \/ TimeoutCall
  \/ TimeoutFnSettles
  \/ TimeoutTimerFires
  \/ TimeoutTick

SpecTimeout == InitTimeout /\ [][NextTimeout]_vars

(* ------------------------------ OCRService ---------------------------- *)
(* ocr is the state of one processSlides call.  slides is its argument, a  *)
(* list the detector's assembly returns; task[k] is the limiter task of    *)
(* slide k: queued, running in its attempt[k]-th call of the function      *)
(* given to withRetry, done or failed.  submitted[k] lists the frames      *)
(* whose image was handed to preprocessImage, starts[k] counts the calls   *)
(* of processSlide for slide k; ocrResults[k] and                          *)
(* primaryText[k] are the two fields of slide k that processSlide writes.  *)

\* maxRetries: 2
OcrMaxRetries == 2

\* The trimmed texts tesseract recognizes; extractText gives "" when it throws.
Texts == {"", "text"}

\* The first frame instead of the middle one.
OcrFirstFrame(slide) == At(slide.frames, 0)

\* slide.frames[Math.floor(slide.frames.length / 2)]
OcrMostRepresentativeFrame(slide) == At(slide.frames, Len(slide.frames) \div 2)

\* { text, confidence, timestamp: frame.timestamp, frameNumber: frame.frameNumber }
OcrResult(text, frame) ==
  [text |-> text, timestamp |-> frame.timestamp, frameNumber |-> frame.frameNumber]

\* The slide lists the assembly returns for up to MaxOcrFrames frames.
OcrSlideLists ==
  {<<>>} \cup
  UNION {{mergeShortSlides(createSlidesFromBoundaries(ExtractedFrames(n, v), b, m)) :
            b \in BoundaryLists(n), m \in MinSlideFramesValues} :
         n \in 1..MaxOcrFrames, v \in Intervals}

OcrStart(sl, concurrency) ==
  [pc             |-> "running",
   slides         |-> sl,
   concurrency    |-> concurrency,
   task           |-> [k \in 1..Len(sl) |-> "queued"],
   attempt        |-> [k \in 1..Len(sl) |-> 1],
   starts         |-> [k \in 1..Len(sl) |-> 0],
   submitted      |-> [k \in 1..Len(sl) |-> <<>>],
   ocrResults     |-> [k \in 1..Len(sl) |-> <<>>],
   primaryText    |-> [k \in 1..Len(sl) |-> ""],
   processedCount |-> 0,
   returned       |-> <<>>]

\* The tasks the limiter is running.
OcrInFlight == {k \in 1..Len(ocr.slides) : ocr.task[k] = "running"}

\* The limiter starts the oldest queued task whether or not a slot is free.
OcrStartTaskUnlimited(k) ==
  /\ ocr.pc = "running"
  /\ ocr.task[k] = "queued"
  /\ \A j \in 1..(k - 1) : ocr.task[j] # "queued"
  /\ ocr' = [ocr EXCEPT !.task[k] = "running", !.starts[k] = @ + 1]
  /\ UNCHANGED <<pc, frames, threshold, minSlideFrames, i, differences, threw,
                 boundaries, slides, result, again, progressCalls, retry, timeout>>
  /\ UNCHANGED otherServices

\* The limiter starts the oldest queued task when a slot is free.
OcrStartTask(k) ==
  /\ ocr.pc = "running"
  /\ ocr.task[k] = "queued"
  /\ \A j \in 1..(k - 1) : ocr.task[j] # "queued"
  /\ Cardinality(OcrInFlight) < ocr.concurrency
  /\ ocr' = [ocr EXCEPT !.task[k] = "running", !.starts[k] = @ + 1]
  /\ UNCHANGED <<pc, frames, threshold, minSlideFrames, i, differences, threw,
                 boundaries, slides, result, again, progressCalls, retry, timeout>>
  /\ UNCHANGED otherServices

\* One call of the function given to withRetry that returns: the image is
\* preprocessed, extractText gives a result, the slide gets it; processSlide
\* returns and processedCount++.
OcrAttemptSucceeds(k) ==
  /\ ocr.pc = "running"
  /\ ocr.task[k] = "running"
  /\ \E text \in Texts :
       LET frame == OcrMostRepresentativeFrame(ocr.slides[k])
       IN ocr' = [ocr EXCEPT
                    !.task[k] = "done",
                    !.submitted[k] = Append(@, frame),
                    !.ocrResults[k] = Append(@, OcrResult(text, frame)),
                    !.primaryText[k] = text,
                    !.processedCount = @ + 1]
  /\ UNCHANGED <<pc, frames, threshold, minSlideFrames, i, differences, threw,
                 boundaries, slides, result, again, progressCalls, retry, timeout>>
  /\ UNCHANGED otherServices

\* The failure of the last attempt rejects the whole processSlides call.
OcrAttemptFailsAborts(k) ==
  /\ ocr.pc = "running"
  /\ ocr.task[k] = "running"
  /\ \E retryable \in BOOLEAN :
       LET frame == OcrMostRepresentativeFrame(ocr.slides[k])
           tried == [ocr EXCEPT !.submitted[k] = Append(@, frame)]
       IN IF GivesUp(ocr.attempt[k], OcrMaxRetries, retryable)
          THEN ocr' = [tried EXCEPT !.task[k] = "failed", !.pc = "rejected"]
          ELSE ocr' = [tried EXCEPT !.attempt[k] = @ + 1]
  /\ UNCHANGED <<pc, frames, threshold, minSlideFrames, i, differences, threw,
                 boundaries, slides, result, again, progressCalls, retry, timeout>>
  /\ UNCHANGED otherServices

\* One call of the function given to withRetry that throws: preprocessImage
\* rejects.  withRetry gives up or, after the delay, calls it again; when it
\* gives up processSlide rejects and the catch of processSlides logs it.
OcrAttemptFails(k) ==
  /\ ocr.pc = "running"
  /\ ocr.task[k] = "running"
  /\ \E retryable \in BOOLEAN :
       LET frame == OcrMostRepresentativeFrame(ocr.slides[k])
           tried == [ocr EXCEPT !.submitted[k] = Append(@, frame)]
       IN IF GivesUp(ocr.attempt[k], OcrMaxRetries, retryable)
          THEN ocr' = [tried EXCEPT !.task[k] = "failed"]
          ELSE ocr' = [tried EXCEPT !.attempt[k] = @ + 1]
  /\ UNCHANGED <<pc, frames, threshold, minSlideFrames, i, differences, threw,
                 boundaries, slides, result, again, progressCalls, retry, timeout>>
  /\ UNCHANGED otherServices

\* await Promise.all(processingPromises); return slides
OcrReturn ==
  /\ ocr.pc = "running"
  /\ \A k \in 1..Len(ocr.slides) : ocr.task[k] \in {"done", "failed"}
  /\ ocr' = [ocr EXCEPT
               !.pc = "resolved",
               !.returned = [k \in 1..Len(ocr.slides) |->
                               [slide       |-> ocr.slides[k],
                                ocrResults  |-> ocr.ocrResults[k],
                                primaryText |-> ocr.primaryText[k]]]]
  /\ UNCHANGED <<pc, frames, threshold, minSlideFrames, i, differences, threw,
                 boundaries, slides, result, again, progressCalls, retry, timeout>>
  /\ UNCHANGED otherServices

InitOCR ==
  /\ DetectorIdle
  /\ retry = RetryIdle
  /\ timeout = TimeoutIdle
  /\ ocr \in {OcrStart(sl, c) : sl \in OcrSlideLists, c \in 1..MaxConcurrentOcr}
  /\ ServicesIdle

NextOCR ==
  \/ \E k \in 1..Len(ocr.slides) : OcrStartTask(k)
  \/ \E k \in 1..Len(ocr.slides) : OcrAttemptSucceeds(k)
  \/ \E k \in 1..Len(ocr.slides) : OcrAttemptFails(k)
  \/ OcrReturn

SpecOCR == InitOCR /\ [][NextOCR]_vars

(* ----------------------------- getRetryDelay -------------------------- *)
(* backoff is one call of getRetryDelay(attempt, baseDelay) with the value *)
(* random / RandomSteps of Math.random().  Delays are held in units of     *)
(* 1 / DelayScale ms, which makes the jitter a whole number.               *)

\* Math.min(..., 30000)
MaxDelay == 30000

\* The baseDelay arguments, in ms; 1000 is the default.
BaseDelays == {0, 1, 300, 1000, MaxDelay}

\* Delays are counted in 1 / DelayScale ms.
DelayScale == 10 * RandomSteps

RECURSIVE PowerOfTwo(_)
PowerOfTwo(n) == IF n = 0 THEN 1 ELSE 2 * PowerOfTwo(n - 1)

\* baseDelay * 2 ** (attempt - 1)
exponentialDelay(attempt, baseDelay) == baseDelay * PowerOfTwo(attempt - 1)

\* Math.random() * 0.3 * exponentialDelay, times DelayScale
jitter(attempt, baseDelay, random) == random * 3 * exponentialDelay(attempt, baseDelay)

\* The sum returned without the maximum of 30 seconds.
getRetryDelayUncapped(attempt, baseDelay, random) ==
  exponentialDelay(attempt, baseDelay) * DelayScale + jitter(attempt, baseDelay, random)

\* Math.min(exponentialDelay + jitter, 30000), times DelayScale
getRetryDelay(attempt, baseDelay, random) ==
  Min(exponentialDelay(attempt, baseDelay) * DelayScale + jitter(attempt, baseDelay, random),
      MaxDelay * DelayScale)

BackoffStart(attempt, baseDelay, random) ==
  [pc |-> "called", attempt |-> attempt, baseDelay |-> baseDelay,
   random |-> random, delay |-> 0]

\* getRetryDelay returns.
GetRetryDelay ==
  /\ backoff.pc = "called"
  /\ backoff' = [backoff EXCEPT
                   !.pc = "returned",
                   !.delay = getRetryDelay(backoff.attempt, backoff.baseDelay,
                                           backoff.random)]
  /\ UNCHANGED <<pc, frames, threshold, minSlideFrames, i, differences, threw,
                 boundaries, slides, result, again, progressCalls>>
  /\ UNCHANGED <<retry, timeout, ocr, cleanup, guarded, job>>

\* withRetry, withTimeout and the OCR service are not in use.
UtilitiesIdle ==
  /\ retry = RetryIdle
  /\ timeout = TimeoutIdle
  /\ ocr = OcrIdle

InitBackoff ==
  /\ DetectorIdle
  /\ UtilitiesIdle
  /\ backoff \in {BackoffStart(a, b, r) : a \in 1..MaxBackoffAttempt,
                                          b \in BaseDelays,
                                          r \in 0..(RandomSteps - 1)}
  /\ cleanup = CleanupIdle
  /\ guarded = GuardedIdle
  /\ job = JobIdle

NextBackoff == GetRetryDelay

SpecBackoff == InitBackoff /\ [][NextBackoff]_vars

(* ----------------------------- VideoProcessor ------------------------- *)
(* job is one processVideo call.  status is job.status and events the      *)
(* statuses of the 'progress' events emitted so far; at is the await the    *)
(* call is suspended at.  interval and reading are the frame extractor's    *)
(* 500 ms timer and the directory read its callback is waiting for; calls   *)
(* counts the progress callbacks of the current stage.  The progress        *)
(* percentages are left out.                                                *)

\* enum ProcessingStatus, in the order of the stages
StatusOrder ==
  <<"idle", "downloading", "extracting_frames", "detecting_slides",
    "running_ocr", "generating_document", "completed">>

\* job.status = status; this.emit('progress', { jobId, status, progress })
updateJobStatus(j, status) ==
  [j EXCEPT !.status = status, !.events = Append(@, status)]

\* The stage that follows the awaited one, and the status set on entering it.
NextStage(at) ==
  CASE at = "detect"   -> [at |-> "ocr", status |-> "running_ocr"]
    [] at = "ocr"      -> [at |-> "generate", status |-> "generating_document"]

\* The status the progress callback of the awaited stage sets.
StageStatus(at) ==
  CASE at = "download" -> "downloading"
    [] at = "extract"  -> "extracting_frames"
    [] at = "detect"   -> "detecting_slides"
    [] at = "ocr"      -> "running_ocr"

\* const job = { status: ProcessingStatus.IDLE, ... }
JobStart ==
  [at |-> "start", status |-> "idle", events |-> <<>>, calls |-> 0,
   interval |-> "none", reading |-> FALSE, lateCalls |-> 0]

\* updateJobStatus(job, DOWNLOADING, 0) and the call of downloadVideo
JobDownload ==
  /\ job.at = "start"
  /\ job' = [updateJobStatus(job, "downloading") EXCEPT !.at = "download"]
  /\ UNCHANGED <<pc, frames, threshold, minSlideFrames, i, differences, threw,
                 boundaries, slides, result, again, progressCalls>>
  /\ UNCHANGED <<retry, timeout, ocr, backoff, cleanup, guarded>>

\* A progress callback of the downloader, the detector or the OCR service,
\* called while processVideo awaits that stage.
JobStageProgress ==
  /\ job.at \in {"download", "detect", "ocr"}
  /\ job.calls < MaxStageCallbacks
  /\ job' = [updateJobStatus(job, StageStatus(job.at)) EXCEPT !.calls = @ + 1]
  /\ UNCHANGED <<pc, frames, threshold, minSlideFrames, i, differences, threw,
                 boundaries, slides, result, again, progressCalls>>
  /\ UNCHANGED <<retry, timeout, ocr, backoff, cleanup, guarded>>

\* downloadVideo resolves: updateJobStatus(job, EXTRACTING_FRAMES, 25) and
\* extractFrames runs up to the spawn of ffmpeg, which sets the interval.
JobExtract ==
  /\ job.at = "download"
  /\ job' = [updateJobStatus(job, "extracting_frames") EXCEPT
               !.at = "extract", !.calls = 0, !.interval = "set"]
  /\ UNCHANGED <<pc, frames, threshold, minSlideFrames, i, differences, threw,
                 boundaries, slides, result, again, progressCalls>>
  /\ UNCHANGED <<retry, timeout, ocr, backoff, cleanup, guarded>>

\* The interval fires: its callback starts fs.readdir(outputDir) and waits.
JobPollFires ==
  /\ job.interval = "set"
  /\ ~ job.reading
  /\ job.calls < MaxStageCallbacks
  /\ job' = [job EXCEPT !.reading = TRUE, !.calls = @ + 1]
  /\ UNCHANGED <<pc, frames, threshold, minSlideFrames, i, differences, threw,
                 boundaries, slides, result, again, progressCalls>>
  /\ UNCHANGED <<retry, timeout, ocr, backoff, cleanup, guarded>>

\* The directory read of the interval callback returns; with more frames
\* than last time it calls onProgress, which is processVideo's
\* updateJobStatus(job, EXTRACTING_FRAMES, ...).
JobPollReports ==
  /\ job.reading
  /\ \E more \in BOOLEAN :
       job' = [(IF more THEN updateJobStatus(job, "extracting_frames") ELSE job)
                 EXCEPT !.reading = FALSE,
                        !.lateCalls = IF more /\ job.at \notin {"extract", "readFrames"}
                                     THEN @ + 1 ELSE @]
  /\ UNCHANGED <<pc, frames, threshold, minSlideFrames, i, differences, threw,
                 boundaries, slides, result, again, progressCalls>>
  /\ UNCHANGED <<retry, timeout, ocr, backoff, cleanup, guarded>>

\* ffmpeg closes with code 0: clearInterval and resolve; extractFrames goes
\* on to await fs.readdir(framesDir).
JobFfmpegCloses ==
  /\ job.at = "extract"
  /\ job' = [job EXCEPT !.at = "readFrames", !.interval = "cleared"]
  /\ UNCHANGED <<pc, frames, threshold, minSlideFrames, i, differences, threw,
                 boundaries, slides, result, again, progressCalls>>
  /\ UNCHANGED <<retry, timeout, ocr, backoff, cleanup, guarded>>

\* extractFrames has the frame files: it calls onProgress(PROGRESS_EXTRACT_END)
\* and returns, and processVideo does updateJobStatus(job, DETECTING_SLIDES, 40).
JobExtractReturns ==
  /\ job.at = "readFrames"
  /\ job' = [updateJobStatus(updateJobStatus(job, "extracting_frames"),
                             "detecting_slides")
               EXCEPT !.at = "detect", !.calls = 0]
  /\ UNCHANGED <<pc, frames, threshold, minSlideFrames, i, differences, threw,
                 boundaries, slides, result, again, progressCalls>>
  /\ UNCHANGED <<retry, timeout, ocr, backoff, cleanup, guarded>>

\* The awaited detector or OCR service resolves and the next stage starts.
JobStageResolves ==
  /\ job.at \in {"detect", "ocr"}
  /\ job' = [updateJobStatus(job, NextStage(job.at).status) EXCEPT
               !.at = NextStage(job.at).at, !.calls = 0]
  /\ UNCHANGED <<pc, frames, threshold, minSlideFrames, i, differences, threw,
                 boundaries, slides, result, again, progressCalls>>
  /\ UNCHANGED <<retry, timeout, ocr, backoff, cleanup, guarded>>

\* generateMarkdown resolves: await this.cleanup(...)
JobCleanup ==
  /\ job.at = "generate"
  /\ job' = [job EXCEPT !.at = "cleanup"]
  /\ UNCHANGED <<pc, frames, threshold, minSlideFrames, i, differences, threw,
                 boundaries, slides, result, again, progressCalls>>
  /\ UNCHANGED <<retry, timeout, ocr, backoff, cleanup, guarded>>

\* cleanup resolves: updateJobStatus(job, COMPLETED, 100); return result
JobCompletes ==
  /\ job.at = "cleanup"
  /\ job' = [updateJobStatus(job, "completed") EXCEPT !.at = "returned"]
  /\ UNCHANGED <<pc, frames, threshold, minSlideFrames, i, differences, threw,
                 boundaries, slides, result, again, progressCalls>>
  /\ UNCHANGED <<retry, timeout, ocr, backoff, cleanup, guarded>>

\* The awaited stage rejects (for the frame extractor: ffmpeg closes with
\* another code or errors, which clears the interval): the catch block does
\* updateJobStatus(job, FAILED, job.progress) and rethrows.
JobStageRejects ==
  /\ job.at \in {"download", "extract", "readFrames", "detect", "ocr", "generate"}
  /\ job' = [updateJobStatus(job, "failed") EXCEPT
               !.at = "thrown",
               !.interval = IF job.at = "extract" THEN "cleared" ELSE @]
  /\ UNCHANGED <<pc, frames, threshold, minSlideFrames, i, differences, threw,
                 boundaries, slides, result, again, progressCalls>>
  /\ UNCHANGED <<retry, timeout, ocr, backoff, cleanup, guarded>>

InitJob ==
  /\ DetectorIdle
  /\ UtilitiesIdle
  /\ backoff = BackoffIdle
  /\ cleanup = CleanupIdle
  /\ guarded = GuardedIdle
  /\ job = JobStart

NextJob ==
  \/ JobDownload
  \/ JobStageProgress
  \/ JobExtract
  \/ JobPollFires
  \/ JobPollReports
  \/ JobFfmpegCloses
  \/ JobExtractReturns
  \/ JobStageResolves
  \/ JobCleanup
  \/ JobCompletes
  \/ JobStageRejects

SpecJob == InitJob /\ [][NextJob]_vars

(* ------------------------------ withCleanup --------------------------- *)
(* guarded is one withCleanup(fn, cleanupFn) call.  fn and cleanupFn are    *)
(* given by what they do when called: return a promise that resolves,       *)
(* rejects or never settles, or throw.  fn's value or error has the         *)
(* identity value; the error of cleanupFn is CleanupError.                  *)

\* What fn and cleanupFn can do.
GuardBehaviours == {"resolves", "rejects", "never", "throws"}

\* The identities of fn's value or error.
GuardValues == {1, 2, 3}

\* The identity of the error of cleanupFn.
CleanupError == 0

GuardStart(fnDoes, value, cleanupDoes) ==
  [pc |-> "start", fnDoes |-> fnDoes, value |-> value, cleanupDoes |-> cleanupDoes,
   fnCalls |-> 0, fnSettled |-> FALSE, cleanupCalls |-> 0, cleanupBeforeFn |-> FALSE,
   logged |-> 0,
   held |-> [kind |-> "pending", id |-> 0],
   outcome |-> [kind |-> "pending", id |-> 0]]

\* The completion the try block leaves for the finally block to pass on.
GuardHeld(fnDoes, value) ==
  [kind |-> IF fnDoes = "resolves" THEN "resolved" ELSE "rejected", id |-> value]

\* The error of cleanupFn takes the place of fn's outcome.
GuardAfterCleanupReplaces(held, cleanupFailed) ==
  IF cleanupFailed THEN [kind |-> "rejected", id |-> CleanupError] ELSE held

\* catch (error) { logger.error("Cleanup failed", error) }: the completion of
\* the try block stands.
GuardAfterCleanup(held, cleanupFailed) == held

\* try { return await fn(); an fn that throws goes straight to finally
GuardCallFn ==
  /\ guarded.pc = "start"
  /\ IF guarded.fnDoes = "throws"
     THEN guarded' = [guarded EXCEPT
                        !.pc = "finally", !.fnCalls = @ + 1, !.fnSettled = TRUE,
                        !.held = GuardHeld(guarded.fnDoes, guarded.value)]
     ELSE guarded' = [guarded EXCEPT !.pc = "awaitFn", !.fnCalls = @ + 1]
  /\ UNCHANGED <<pc, frames, threshold, minSlideFrames, i, differences, threw,
                 boundaries, slides, result, again, progressCalls>>
  /\ UNCHANGED <<retry, timeout, ocr, backoff, cleanup, job>>

\* fn's promise settles.
GuardFnSettles ==
  /\ guarded.pc = "awaitFn"
  /\ guarded.fnDoes \in {"resolves", "rejects"}
  /\ guarded' = [guarded EXCEPT
                   !.pc = "finally", !.fnSettled = TRUE,
                   !.held = GuardHeld(guarded.fnDoes, guarded.value)]
  /\ UNCHANGED <<pc, frames, threshold, minSlideFrames, i, differences, threw,
                 boundaries, slides, result, again, progressCalls>>
  /\ UNCHANGED <<retry, timeout, ocr, backoff, cleanup, job>>

\* finally { try { await cleanupFn(); a cleanupFn that throws is caught and
\* logged at once and withCleanup settles.
GuardCallCleanup ==
  /\ guarded.pc = "finally"
  /\ LET called == [guarded EXCEPT
                      !.cleanupCalls = @ + 1,
                      !.cleanupBeforeFn = ~ guarded.fnSettled]
     IN IF guarded.cleanupDoes = "throws"
        THEN guarded' = [called EXCEPT
                           !.pc = "settled", !.logged = @ + 1,
                           !.outcome = GuardAfterCleanup(guarded.held, TRUE)]
        ELSE guarded' = [called EXCEPT !.pc = "awaitCleanup"]
  /\ UNCHANGED <<pc, frames, threshold, minSlideFrames, i, differences, threw,
                 boundaries, slides, result, again, progressCalls>>
  /\ UNCHANGED <<retry, timeout, ocr, backoff, cleanup, job>>

\* The promise of cleanupFn settles; a rejection is caught and logged.
GuardCleanupSettles ==
  /\ guarded.pc = "awaitCleanup"
  /\ guarded.cleanupDoes \in {"resolves", "rejects"}
  /\ LET failed == guarded.cleanupDoes = "rejects"
     IN guarded' = [guarded EXCEPT
                      !.pc = "settled",
                      !.logged = IF failed THEN @ + 1 ELSE @,
                      !.outcome = GuardAfterCleanup(guarded.held, failed)]
  /\ UNCHANGED <<pc, frames, threshold, minSlideFrames, i, differences, threw,
                 boundaries, slides, result, again, progressCalls>>
  /\ UNCHANGED <<retry, timeout, ocr, backoff, cleanup, job>>

InitGuard ==
  /\ DetectorIdle
  /\ UtilitiesIdle
  /\ backoff = BackoffIdle
  /\ cleanup = CleanupIdle
  /\ guarded \in {GuardStart(f, v, c) : f \in GuardBehaviours, v \in GuardValues,
                                        c \in GuardBehaviours}
  /\ job = JobIdle

NextGuard ==
  \/ GuardCallFn
  \/ GuardFnSettles
  \/ GuardCallCleanup
  \/ GuardCleanupSettles

SpecGuard == InitGuard /\ [][NextGuard]_vars

(* ----------------------------- CleanupService ------------------------- *)
(* cleanup is one CleanupService and at most one cleanOldFiles call on it.  *)
(* items is what readdir returned for the temp directory: for each item     *)
(* whether its name contains the job id JobId, whether it is a directory,   *)
(* whether it is older than maxAgeHours and whether an exclude pattern      *)
(* matches it.  activeJobs is the registry, next the loop position, deleted *)
(* the items removed from disk, and deletedWhileActive those removed while  *)
(* the job id their name contains was registered.                           *)

\* The job id that item names may contain.
JobId == "job"

\* The kinds of item of the temp directory.
TempItems ==
  [hasJobId : BOOLEAN, isDirectory : BOOLEAN, old : BOOLEAN, excluded : BOOLEAN]

\* The listings of the temp directory.
Listings == UNION {[1..n -> TempItems] : n \in 1..MaxTempItems}

\* isActiveJobFile(filename): the name contains a registered job id
isActiveJobFile(item, activeJobs) == item.hasJobId /\ JobId \in activeJobs

\* shouldProcessItem: excluded, part of an active job, or not old enough
shouldProcessItem(item, activeJobs) ==
  IF item.excluded THEN [skip |-> TRUE]
  ELSE IF isActiveJobFile(item, activeJobs) THEN [skip |-> TRUE]
  ELSE IF ~ item.old THEN [skip |-> TRUE]
  ELSE [skip |-> FALSE]

\* new CleanupService(tempDir) and the options of the cleanOldFiles call
CleanupStart(items, dryRun) ==
  [pc |-> "constructed", items |-> items, dryRun |-> dryRun, activeJobs |-> {},
   next |-> 1, deleted |-> {}, deletedWhileActive |-> {}]

\* The removal of item k from disk.
Removed(c, k) ==
  [c EXCEPT !.deleted = @ \cup {k},
            !.deletedWhileActive =
               IF isActiveJobFile(c.items[k], c.activeJobs) THEN @ \cup {k} ELSE @]

\* registerActiveJob(jobId)
RegisterActiveJob ==
  /\ cleanup.pc # "idle"
  /\ JobId \notin cleanup.activeJobs
  /\ cleanup' = [cleanup EXCEPT !.activeJobs = @ \cup {JobId}]
  /\ UNCHANGED <<pc, frames, threshold, minSlideFrames, i, differences, threw,
                 boundaries, slides, result, again, progressCalls>>
  /\ UNCHANGED <<retry, timeout, ocr, backoff, guarded, job>>

\* unregisterJob(jobId)
UnregisterJob ==
  /\ cleanup.pc # "idle"
  /\ JobId \in cleanup.activeJobs
  /\ cleanup' = [cleanup EXCEPT !.activeJobs = @ \ {JobId}]
  /\ UNCHANGED <<pc, frames, threshold, minSlideFrames, i, differences, threw,
                 boundaries, slides, result, again, progressCalls>>
  /\ UNCHANGED <<retry, timeout, ocr, backoff, guarded, job>>

\* cleanOldFiles is called: mkdir, readdir, now, maxAgeMs
CleanOldFiles ==
  /\ cleanup.pc = "constructed"
  /\ cleanup' = [cleanup EXCEPT !.pc = "loop"]
  /\ UNCHANGED <<pc, frames, threshold, minSlideFrames, i, differences, threw,
                 boundaries, slides, result, again, progressCalls>>
  /\ UNCHANGED <<retry, timeout, ocr, backoff, guarded, job>>

\* processItem after its fs.stat: the check, and for an item to delete the
\* start of deleteItem, which calls fs.unlink for a file and cleanDirectory,
\* which first reads the directory, for a directory.
ProcessItem ==
  /\ cleanup.pc = "loop"
  /\ cleanup.next <= Len(cleanup.items)
  /\ LET item == cleanup.items[cleanup.next]
     IN IF shouldProcessItem(item, cleanup.activeJobs).skip \/ cleanup.dryRun
        THEN cleanup' = [cleanup EXCEPT !.next = @ + 1]
        ELSE cleanup' = [cleanup EXCEPT
                           !.pc = IF item.isDirectory THEN "cleanDirectory"
                                  ELSE "unlink"]
  /\ UNCHANGED <<pc, frames, threshold, minSlideFrames, i, differences, threw,
                 boundaries, slides, result, again, progressCalls>>
  /\ UNCHANGED <<retry, timeout, ocr, backoff, guarded, job>>

\* fs.unlink(itemPath) completes.
UnlinkFile ==
  /\ cleanup.pc = "unlink"
  /\ cleanup' = [Removed(cleanup, cleanup.next) EXCEPT !.pc = "loop", !.next = @ + 1]
  /\ UNCHANGED <<pc, frames, threshold, minSlideFrames, i, differences, threw,
                 boundaries, slides, result, again, progressCalls>>
  /\ UNCHANGED <<retry, timeout, ocr, backoff, guarded, job>>

\* cleanDirectory has read and counted the directory: fs.rm(dirPath, ...)
CleanDirectory ==
  /\ cleanup.pc = "cleanDirectory"
  /\ cleanup' = [Removed(cleanup, cleanup.next) EXCEPT !.pc = "loop", !.next = @ + 1]
  /\ UNCHANGED <<pc, frames, threshold, minSlideFrames, i, differences, threw,
                 boundaries, slides, result, again, progressCalls>>
  /\ UNCHANGED <<retry, timeout, ocr, backoff, guarded, job>>

\* The loop is over: return result
CleanOldFilesReturns ==
  /\ cleanup.pc = "loop"
  /\ cleanup.next > Len(cleanup.items)
  /\ cleanup' = [cleanup EXCEPT !.pc = "returned"]
  /\ UNCHANGED <<pc, frames, threshold, minSlideFrames, i, differences, threw,
                 boundaries, slides, result, again, progressCalls>>
  /\ UNCHANGED <<retry, timeout, ocr, backoff, guarded, job>>

InitCleanup ==
  /\ DetectorIdle
  /\ UtilitiesIdle
  /\ backoff = BackoffIdle
  /\ cleanup \in {CleanupStart(l, d) : l \in Listings, d \in BOOLEAN}
  /\ guarded = GuardedIdle
  /\ job = JobIdle

NextCleanup ==
  \/ RegisterActiveJob
  \/ UnregisterJob
  \/ CleanOldFiles
  \/ ProcessItem
  \/ UnlinkFile
  \/ CleanDirectory
  \/ CleanOldFilesReturns

SpecCleanup == InitCleanup /\ [][NextCleanup]_vars

(* ------------------------------ claims -------------------------------- *)

StrictlyIncreasing(b) == \A k \in 1..(Len(b) - 1) : b[k] < b[k + 1]

RECURSIVE ConcatFrames(_)
ConcatFrames(sl) ==
  IF sl = <<>> THEN <<>> ELSE Head(sl).frames \o ConcatFrames(Tail(sl))

Range(s) == {s[k] : k \in 1..Len(s)}

Monotonic(sl) ==
  /\ \A k \in 1..Len(sl) : sl[k].startTime <= sl[k].endTime
  /\ \A k \in 1..(Len(sl) - 1) : sl[k].endTime <= sl[k + 1].startTime

\* C1 (as stated): whenever findSlideBoundaries has returned for a non-empty
\* frame sequence, the boundary list is strictly increasing, starts at 0 and
\* ends at frameCount, the number of input frames.
C1_BoundariesEndAtFrameCount ==
  (boundaries # NotComputed /\ Len(frames) > 0) =>
     /\ StrictlyIncreasing(boundaries)
     /\ boundaries[1] = 0
     /\ boundaries[Len(boundaries)] = Len(frames)

\* What the code does instead: the list is strictly increasing, starts at 0
\* and ends at differences.length, which is frameCount - 1.
BoundariesEndAtLastFrame ==
  (boundaries # NotComputed /\ Len(frames) > 0) =>
     /\ StrictlyIncreasing(boundaries)
     /\ boundaries[1] = 0
     /\ boundaries[Len(boundaries)] = Len(frames) - 1

\* C2 (as stated): with minSlideFrames = 1 the slides of
\* createSlidesFromBoundaries partition the input: their frame lists,
\* concatenated in order, are the input frame sequence.
C2_SlidesPartitionFrames ==
  (pc \in {"assembled", "done"} /\ minSlideFrames = 1 /\ boundaries # NotComputed) =>
     ConcatFrames(slides) = frames

\* C3 (as stated): for exactly one input frame detectSlides returns exactly
\* one slide, holding that frame, with startTime and endTime its timestamp.
C3_OneFrameOneSlide ==
  (pc = "done" /\ Len(frames) = 1) =>
     /\ Len(result) = 1
     /\ result[1].frames = frames
     /\ result[1].startTime = frames[1].timestamp
     /\ result[1].endTime = frames[1].timestamp

\* C4 (as stated): for n >= 2 identical frames (every pairwise score 0)
\* detectSlides returns exactly one slide and it contains all n frames.
C4_IdenticalFramesOneSlide ==
  (pc = "done" /\ Len(frames) >= 2 /\ threw = {}
     /\ \A k \in 1..Len(differences) : differences[k] = 0) =>
     /\ Len(result) = 1
     /\ result[1].frames = frames

\* The scenario of C5: two frames, their score 0.9, sensitivity 0.15,
\* minSlideFrames 1, and the slides assembled.
C5_Scenario ==
  /\ pc \in {"assembled", "done"}
  /\ Len(frames) = 2
  /\ differences = <<900>>
  /\ threshold = DefaultThreshold
  /\ minSlideFrames = 1

C6_SpikeBoundaries ==
  (boundaries # NotComputed /\ Len(frames) = 5 /\ differences = <<0, 900, 0, 0>>) =>
     boundaries = <<0, 2, 5>>

\* C7 (as stated): after mergeShortSlides no two adjacent slides of the
\* result both have a duration below 1 second.
C7_NoAdjacentShort ==
  pc = "done" =>
     \A k \in 1..(Len(result) - 1) : ~ (IsShort(result[k]) /\ IsShort(result[k + 1]))

\* C7 (amended): after the single pass of mergeShortSlides, two adjacent
\* slides of the result both have a duration below 1 second only if the
\* first of them is itself a merged pair; a slide the pass kept unmerged and
\* that is shorter than 1 second is never followed by a slide shorter than 1
\* second.
C7_NoAdjacentShortUnlessMerged ==
  pc = "done" =>
     \A k \in 1..(Len(result) - 1) :
        (IsShort(result[k]) /\ IsShort(result[k + 1])) => result[k] \notin Range(slides)

C7_Witness ==
  /\ pc = "done"
  /\ Len(slides) >= 3
  /\ \E k \in 1..(Len(result) - 1) :
        /\ IsShort(result[k]) /\ IsShort(result[k + 1])
        /\ result[k] \notin Range(slides)
        /\ result[k + 1] \in Range(slides)

\* C8: for non-decreasing frame timestamps every slide has startTime <=
\* endTime and every slide ends no later than the next one starts, both
\* before and after mergeShortSlides.
C8_MonotonicTimestamps ==
  /\ pc \in {"assembled", "done"} => Monotonic(slides)
  /\ pc = "done" => Monotonic(result)

C8_Witness ==
  /\ pc = "done"
  /\ Len(result) >= 2
  /\ Len(result) < Len(slides)
  /\ \E k \in 1..Len(result) : result[k].startTime < result[k].endTime
  /\ \E k \in 1..(Len(frames) - 1) : frames[k].timestamp = frames[k + 1].timestamp

C10_ThrowScoresZero ==
  /\ \A k \in threw : k <= Len(differences) /\ differences[k] = 0
  /\ pc = "scoring" => Len(differences) = i - 1
  /\ (pc \in {"bounded", "assembled", "done"} /\ Len(frames) > 0 /\ boundaries # NotComputed
        /\ i > 0) =>
        Len(differences) = Len(frames) - 1

C10_Witness ==
  /\ pc = "bounded"
  /\ \E k \in threw : \E j \in (k + 1)..Len(differences) : differences[j] # 0

\* C11: for zero frames detectSlides returns the empty list at once: no pair
\* is scored, the scan is never entered, no boundary is computed and the
\* progress callback is not invoked.
C11_EmptyInputReturnsEmpty ==
  (pc = "done" /\ Len(frames) = 0) =>
     /\ result = <<>>
     /\ i = 0
     /\ differences = <<>>
     /\ threw = {}
     /\ boundaries = NotComputed
     /\ slides = <<>>
     /\ progressCalls = 0

C11_Witness == pc = "done" /\ Len(frames) = 0 /\ result = <<>>

\* The merge condition of C12 at position j (1-based): slide j is short, is
\* not the last slide, and slide j + 1 is short.
C12_MergesAt(s, j) == j < Len(s) /\ IsShort(s[j]) /\ IsShort(s[j + 1])

\* The left-to-right scan of C12 from position j.
RECURSIVE C12_Scan(_, _)
C12_Scan(s, j) ==
  IF j > Len(s) THEN <<>>
  ELSE IF C12_MergesAt(s, j)
       THEN <<[startTime |-> s[j].startTime,
               endTime   |-> s[j + 1].endTime,
               frames    |-> s[j].frames \o s[j + 1].frames]>> \o C12_Scan(s, j + 2)
       ELSE <<s[j]>> \o C12_Scan(s, j + 1)

\* C12: mergeShortSlides is the left-to-right scan that merges slide j with
\* slide j + 1 exactly when both are shorter than 1 second (start of the
\* first, end of the second, frames of both in order) and then advances two
\* positions, and otherwise keeps slide j and advances one; a slide of 1
\* second or more is kept as it is.
C12_MergeRule ==
  pc = "done" =>
     /\ result = C12_Scan(slides, 1)
     /\ \A j \in 1..Len(slides) : ~ IsShort(slides[j]) => slides[j] \in Range(result)

C12_Witness ==
  /\ pc = "done"
  /\ \E k \in 1..Len(result) : result[k] \notin Range(slides)
  /\ \E k \in 1..Len(result) : result[k] \in Range(slides) /\ IsShort(result[k])
  /\ \E k \in 1..Len(result) : ~ IsShort(result[k]) /\ result[k] \in Range(slides)

\* The boundary pairs of C13 whose range has at least msf frames.
C13_Kept(b, msf) == {k \in 1..(Len(b) - 1) : b[k + 1] - b[k] >= msf}

\* The slide of C13 for the boundary pair k: frames b[k] .. b[k+1]-1 (0-based),
\* from the timestamp of the first to the timestamp of the last.
C13_SlideOf(f, b, k) ==
  [startTime |-> f[b[k] + 1].timestamp,
   endTime   |-> f[b[k + 1]].timestamp,
   frames    |-> [j \in 1..(b[k + 1] - b[k]) |-> f[b[k] + j]]]

\* C13: createSlidesFromBoundaries emits, in boundary order, exactly one
\* slide for every consecutive boundary pair whose range has at least
\* minSlideFrames frames, holding the frames of the range, with the
\* timestamps of its first and last frame.
C13_OneSlidePerKeptPair ==
  pc \in {"assembled", "done"} =>
     LET kept == Ascending(C13_Kept(boundaries, minSlideFrames))
     IN /\ Len(slides) = Len(kept)
        /\ \A n \in 1..Len(kept) : slides[n] = C13_SlideOf(frames, boundaries, kept[n])

C13_Witness ==
  /\ pc = "assembled"
  /\ minSlideFrames = 2
  /\ Len(slides) >= 2
  /\ Len(slides) < Len(boundaries) - 1
  /\ \E n \in 1..Len(slides) : Len(slides[n].frames) = 2

\* Every slide of the list sl has at least one frame.
FramesNonEmpty(sl) == \A k \in 1..Len(sl) : sl[k].frames # <<>>

\* The detector returns no slide without frames.
DetectorSlidesNonEmpty == FramesNonEmpty(slides) /\ FramesNonEmpty(result)

\* C14: every slide has at least one frame; its representative frame is the
\* one at index floor(frameCount / 2), a member of the slide; OCR submits
\* exactly this frame for the slide and no other, and the selector of the
\* detector and the selector of the OCR service pick the same frame.
C14_RepresentativeFrame ==
  \A k \in 1..Len(ocr.slides) :
    LET slide == ocr.slides[k]
        middle == slide.frames[(Len(slide.frames) \div 2) + 1]
    IN /\ slide.frames # <<>>
       /\ getMostRepresentativeFrame(slide) = middle
       /\ OcrMostRepresentativeFrame(slide) = getMostRepresentativeFrame(slide)
       /\ middle \in Range(slide.frames)
       /\ \A n \in 1..Len(ocr.submitted[k]) : ocr.submitted[k][n] = middle
       /\ \A n \in 1..Len(ocr.ocrResults[k]) :
            ocr.ocrResults[k][n].frameNumber = middle.frameNumber
       /\ ocr.task[k] \in {"done", "failed"} => ocr.submitted[k] # <<>>

C14_Witness ==
  /\ ocr.pc = "resolved"
  /\ \E k \in 1..Len(ocr.slides) :
       /\ Len(ocr.slides[k].frames) = 3
       /\ ocr.task[k] = "done"
       /\ Len(ocr.submitted[k]) = 2
       /\ ocr.submitted[k][2].frameNumber = 1 + ocr.slides[k].frames[1].frameNumber
  /\ \E k \in 1..Len(ocr.slides) :
       Len(ocr.slides[k].frames) = 2 /\ ocr.task[k] = "done"

\* C15: when the OCR of a slide fails after its retries the other slides
\* are still processed and processSlides resolves, never rejects, with all
\* input slides in input order; the failed slide's primaryText is "".
C15_FailedSlideKeepsOthers ==
  /\ ocr.pc # "rejected"
  /\ \A k \in 1..Len(ocr.slides) :
       ocr.task[k] = "failed" =>
         /\ ocr.primaryText[k] = ""
         /\ ocr.ocrResults[k] = <<>>
         /\ Len(ocr.submitted[k]) \in 1..OcrMaxRetries
  /\ ocr.pc = "resolved" =>
       /\ Len(ocr.returned) = Len(ocr.slides)
       /\ \A k \in 1..Len(ocr.slides) :
            /\ ocr.returned[k].slide = ocr.slides[k]
            /\ ocr.task[k] \in {"done", "failed"}
            /\ ocr.task[k] = "done" =>
                 /\ Len(ocr.ocrResults[k]) = 1
                 /\ ocr.returned[k].primaryText = ocr.ocrResults[k][1].text
            /\ ocr.task[k] = "failed" => ocr.returned[k].primaryText = ""
       /\ ocr.processedCount =
            Cardinality({k \in 1..Len(ocr.slides) : ocr.task[k] = "done"})

C15_Witness ==
  /\ ocr.pc = "resolved"
  /\ Len(ocr.slides) = 3
  /\ ocr.task[1] = "done" /\ ocr.returned[1].primaryText = "text"
  /\ ocr.task[2] = "failed" /\ Len(ocr.submitted[2]) = 2
  /\ ocr.task[3] = "done" /\ ocr.returned[3].primaryText = "text"

\* The failures among the settled invocations of fn.
Failures(r) == {k \in 1..Len(r.settled) : ~ r.settled[k].ok}

\* shouldRetry returned true every time it was asked.
AlwaysRetry(r) == \A k \in 1..Len(r.shouldRetryLog) : r.shouldRetryLog[k].returned

\* C16: with maxRetries N >= 1, a shouldRetry that always returns true and an
\* fn that fails every time, fn is invoked exactly N times and withRetry
\* rejects with the error of the last, N-th invocation.
C16_ExhaustsAfterMaxRetries ==
  (/\ retry.pc = "rejected"
   /\ retry.maxRetries >= 1
   /\ AlwaysRetry(retry))
  => /\ retry.fnCalls = retry.maxRetries
     /\ Failures(retry) = 1..retry.maxRetries
     /\ retry.outcome.kind = "rejected"
     /\ retry.outcome.error.id = retry.maxRetries
     /\ retry.outcome.error.instanceOfError

C16_Witness ==
  /\ retry.pc = "rejected"
  /\ retry.maxRetries = MaxRetriesOption
  /\ Len(retry.shouldRetryLog) = MaxRetriesOption - 1
  /\ AlwaysRetry(retry)
  /\ retry.fnCalls = MaxRetriesOption

\* C17: withRetry resolves with the value of the first successful invocation
\* of fn and never invokes fn after it: k failures followed by a success are
\* exactly k + 1 invocations.
C17_ResolvesWithFirstSuccess ==
  /\ retry.pc = "resolved" =>
       /\ retry.outcome.kind = "resolved"
       /\ retry.outcome.value = retry.fnCalls
       /\ Len(retry.settled) = retry.fnCalls
       /\ retry.settled[retry.fnCalls].ok
       /\ Failures(retry) = 1..(retry.fnCalls - 1)
       /\ retry.fnCalls <= retry.maxRetries
  /\ \A k \in 1..Len(retry.settled) :
       retry.settled[k].ok => k = Len(retry.settled) /\ retry.pc = "resolved"

C17_Witness ==
  /\ retry.pc = "resolved"
  /\ retry.maxRetries = 3
  /\ retry.fnCalls = 3
  /\ Cardinality(Failures(retry)) = 2
  /\ retry.outcome.value = 3

\* C18: shouldRetry is called with the error and the 1-based number of the
\* attempt that failed; when it returns false there is no further attempt and
\* withRetry rejects with that same error.
C18_ShouldRetryFalseRejects ==
  \A k \in 1..Len(retry.shouldRetryLog) :
    LET call == retry.shouldRetryLog[k]
    IN /\ call.attempt = k
       /\ call.error.id = k
       /\ call.error.instanceOfError
       /\ ~ retry.settled[k].ok
       /\ ~ call.returned =>
            /\ k = Len(retry.shouldRetryLog)
            /\ retry.pc = "rejected"
            /\ retry.fnCalls = k
            /\ retry.outcome.kind = "rejected"
            /\ retry.outcome.error = call.error

C18_Witness ==
  /\ retry.pc = "rejected"
  /\ retry.maxRetries = 3
  /\ Len(retry.shouldRetryLog) = 2
  /\ retry.shouldRetryLog[1].returned
  /\ ~ retry.shouldRetryLog[2].returned
  /\ retry.fnCalls = 2

\* onRetry is invoked once before each re-attempt, with the error and the
\* 1-based number of the attempt that failed, in increasing order, and never
\* for a failure that ends the loop.
OnRetryOncePerReattempt ==
  retry.hasOnRetry =>
    /\ \A k \in 1..Len(retry.onRetryLog) :
         /\ retry.onRetryLog[k].attempt = k
         /\ retry.onRetryLog[k].error.id = k
         /\ ~ retry.settled[k].ok
    /\ Len(retry.onRetryLog) = retry.attempt - (IF retry.pc = "delay" THEN 0 ELSE 1)

\* C19: onRetry is invoked exactly once before each re-attempt with the error
\* and the 1-based attempt number, in increasing order, never for a failure
\* that ends the loop; so once withRetry has settled the number of onRetry
\* calls is the number of fn calls minus one.
C19_OnRetryCallsAreFnCallsMinusOne ==
  /\ OnRetryOncePerReattempt
  /\ (retry.hasOnRetry /\ retry.pc \in {"resolved", "rejected"})
       => Len(retry.onRetryLog) = retry.fnCalls - 1

\* withTimeout has settled.
TimeoutSettled == timeout.pc \in {"resolved", "rejected"}

\* fn is started once, the call settles at most once, and the outcome is
\* fn's when fn finishes before the timer is due and the timeout error when
\* the timer is due first; a later settlement of fn leaves it alone.
TimeoutFirstDecides ==
  /\ timeout.fnStarts = (IF timeout.pc = "start" THEN 0 ELSE 1)
  /\ timeout.settlements = (IF TimeoutSettled THEN 1 ELSE 0)
  /\ TimeoutSettled =>
       LET fnFinishes == timeout.fnDoes \in {"resolves", "rejects"}
           fnFirst == \/ timeout.fnDoes = "throws"
                      \/ fnFinishes /\ timeout.fnAt < timeout.timeoutMs
           timerFirst == \/ timeout.fnDoes = "never"
                         \/ fnFinishes /\ timeout.fnAt > timeout.timeoutMs
       IN /\ fnFirst => timeout.outcome = FnOutcome(timeout.fnDoes)
          /\ timerFirst => timeout.outcome = TimeoutError(timeout.errorMessage)
          /\ timeout.outcome \in {FnOutcome(timeout.fnDoes),
                                   TimeoutError(timeout.errorMessage)}

\* Unless fn throws before returning a promise, no timer is left armed once
\* withTimeout has settled and timeoutPromise never rejects unobserved.
TimerClearedUnlessFnThrows ==
  timeout.fnDoes # "throws" =>
    /\ TimeoutSettled => timeout.timer \in {"cleared", "fired"}
    /\ ~ timeout.unhandled

\* C20: withTimeout starts fn exactly once and settles exactly once, with
\* fn's outcome if fn finishes before the timer and with Error(msg) if the
\* timer fires first; once it has settled the timer is cleared in every
\* case, and a later settlement of fn does not change the outcome.
C20_TimeoutSettlesOnceTimerCleared ==
  /\ TimeoutFirstDecides
  /\ TimeoutSettled => timeout.timer \in {"cleared", "fired"}

\* C21: getRetryDelay(attempt, base) for attempt >= 1 is never above 30000;
\* below the cap it lies between base * 2^(attempt - 1) and 1.3 times that,
\* inclusive; whenever base * 2^(attempt - 1) >= 30000 it is exactly 30000
\* whatever the jitter.
C21_BackoffWithinBounds ==
  backoff.pc = "returned" =>
    LET exp == backoff.baseDelay * 2 ^ (backoff.attempt - 1)
        cap == 30000 * DelayScale
    IN /\ backoff.delay <= cap
       /\ backoff.delay < cap =>
            /\ exp * DelayScale <= backoff.delay
            /\ 10 * backoff.delay <= 13 * exp * DelayScale
       /\ exp >= 30000 => backoff.delay = cap

C21_Witness ==
  /\ backoff.pc = "returned"
  /\ backoff.attempt = 10
  /\ backoff.baseDelay = 1000
  /\ backoff.random = RandomSteps - 1
  /\ backoff.delay = 30000 * DelayScale

\* An item whose name contains a registered job id is never taken for
\* deletion by the per-item check: a deletion under way was decided while
\* the id was not registered, or the id has been registered since.
NoActiveItemPassesTheCheck ==
  [][(cleanup.pc = "loop" /\ cleanup'.pc \in {"unlink", "cleanDirectory"})
       => ~ isActiveJobFile(cleanup.items[cleanup.next], cleanup.activeJobs)]_vars

\* C22: from the return of registerActiveJob(id) until unregisterJob(id),
\* cleanOldFiles deletes no file or directory of the temp directory whose
\* name contains id, whatever its age, also when the registration happens
\* while a cleanOldFiles call is between the per-item check and the deletion
\* of a directory.
C22_ActiveJobFilesSurvive == cleanup.deletedWhileActive = {}

\* The scores of the window i-3..i+3 clipped to the sequence (i is 0-based).
ClippedWindow(d, k) ==
  {At(d, j) : j \in Max(0, k - windowSize)..Min(Len(d) - 1, k + windowSize)}

\* The score, in thousandths, strictly exceeds max(0.4 * base, 2 * p25).
AboveActive(score, d, base) ==
  d # <<>> /\ 10 * score > 4 * base /\ 10 * score > 20 * percentile25(d)

\* Score position k is a local peak above the active threshold.
IsPeak(d, k, base) ==
  /\ \A x \in ClippedWindow(d, k) : x <= At(d, k)
  /\ AboveActive(At(d, k), d, base)

\* The local-peak rule at the positions the window fits around: 3 <= i and
\* i + 3 < number of scores.
PeakRuleWhereWindowFits ==
  boundaries # NotComputed =>
    \A k \in windowSize..(Len(differences) - windowSize - 1) :
      IsPeak(differences, k, threshold) => k + 1 \in Range(boundaries)

\* C23: for every score position i, also fewer than 3 from either end with
\* the window clipped, a score that equals the maximum of the window
\* i-3..i+3 and exceeds the active threshold puts frame index i + 1 into the
\* returned boundary list.
C23_PeakRuleEverywhere ==
  boundaries # NotComputed =>
    \A k \in 0..(Len(differences) - 1) :
      IsPeak(differences, k, threshold) => k + 1 \in Range(boundaries)

\* The maximal runs <<first, last>> of scores above the active threshold.
HighRuns(d, base) ==
  {r \in (0..(Len(d) - 1)) \X (0..(Len(d) - 1)) :
     /\ r[1] <= r[2]
     /\ \A k \in r[1]..r[2] : AboveActive(At(d, k), d, base)
     /\ r[1] = 0 \/ ~ AboveActive(At(d, r[1] - 1), d, base)
     /\ r[2] = Len(d) - 1 \/ ~ AboveActive(At(d, r[2] + 1), d, base)}

\* The boundary at the midpoint of the run r.
RunBoundary(r) == ((r[1] + r[2] + 1) \div 2) + 1

\* The returned boundaries before the final sentinel.
Accepted(b) == {b[k] : k \in 1..(Len(b) - 1)}

\* C24: for every maximal run of scores above the active threshold, also one
\* that reaches the last score and one lying before an accepted local-peak
\* boundary, the returned list has a boundary at the run's midpoint, unless
\* that midpoint is already a boundary or lies fewer than 2 frames from the
\* most recent boundary (here: from any boundary accepted by the two loops).
C24_EveryRunHasItsMidpoint ==
  boundaries # NotComputed =>
    \A r \in HighRuns(differences, threshold) :
      \/ RunBoundary(r) \in Range(boundaries)
      \/ \E b \in Accepted(boundaries) :
           RunBoundary(r) - b < 2 /\ b - RunBoundary(r) < 2

BaseValues == {100, DefaultThreshold}

\* Every boundary other than 0 and the final sentinel sits directly after a
\* score above the active threshold; with no such score the list is 0 and
\* the sentinel only.
BoundariesFollowHighScores(b, d, base) ==
  /\ \A k \in 2..(Len(b) - 1) : AboveActive(At(d, b[k] - 1), d, base)
  /\ (\A k \in 0..(Len(d) - 1) : ~ AboveActive(At(d, k), d, base))
       => b = AddSentinel(<<0>>, d)

C27_MergeKeepsFrames ==
  pc = "done" =>
    /\ slides = createSlidesFromBoundaries(frames, boundaries, minSlideFrames)
    /\ ConcatFrames(result) = ConcatFrames(slides)
    /\ Len(result) <= Len(slides)
    /\ 2 * Len(result) >= Len(slides)

C27_Witness ==
  /\ pc = "done"
  /\ Len(slides) = 3
  /\ Len(result) = 2
  /\ Len(result[1].frames) = 3
  /\ Len(ConcatFrames(result)) = 4

\* The place of a status in the order of the stages.
Rank(status) == CHOOSE k \in 1..Len(StatusOrder) : StatusOrder[k] = status

\* The statuses emitted so far never step backwards, and nothing follows
\* "completed" or "failed".
EventsForwardThenTerminal(events) ==
  \A k \in 1..(Len(events) - 1) :
    /\ events[k] \notin {"completed", "failed"}
    /\ events[k + 1] # "failed" => Rank(events[k]) <= Rank(events[k + 1])

\* As long as no directory read of the frame extractor's interval returns
\* after the extraction stage, the status only moves forward.
StatusForwardWithoutLatePoll ==
  job.lateCalls = 0 => EventsForwardThenTerminal(job.events)

\* C28: within one processVideo call the job status never moves backwards in
\* the order idle, downloading, extracting_frames, detecting_slides,
\* running_ocr, generating_document, completed; completed and failed are
\* terminal: no 'progress' event and no status change follows them, also
\* when a progress callback of an earlier stage fires late.
C28_StatusNeverMovesBack ==
  /\ EventsForwardThenTerminal(job.events)
  /\ job.events # <<>> => job.status = job.events[Len(job.events)]

\* C29: withCleanup invokes cleanupFn exactly once and only after fn has
\* settled, whether fn resolved or rejected; its outcome is exactly fn's
\* outcome, and an error of cleanupFn is swallowed and never replaces it.
C29_CleanupOnceOutcomeKept ==
  /\ guarded.fnCalls <= 1
  /\ guarded.cleanupCalls <= 1
  /\ ~ guarded.cleanupBeforeFn
  /\ guarded.cleanupCalls = 1 => guarded.fnDoes \in {"resolves", "rejects", "throws"}
  /\ guarded.pc \in {"awaitCleanup", "settled"} => guarded.cleanupCalls = 1
  /\ guarded.pc = "settled" =>
       /\ guarded.outcome.id = guarded.value
       /\ guarded.outcome.kind =
            (IF guarded.fnDoes = "resolves" THEN "resolved" ELSE "rejected")
       /\ guarded.logged =
            (IF guarded.cleanupDoes \in {"rejects", "throws"} THEN 1 ELSE 0)
  /\ guarded.pc # "settled" => guarded.outcome.kind = "pending"

C29_Witness ==
  /\ guarded.pc = "settled"
  /\ guarded.fnDoes = "resolves"
  /\ guarded.cleanupDoes = "rejects"
  /\ guarded.outcome = [kind |-> "resolved", id |-> 2]
  /\ guarded.cleanupCalls = 1

\* C30: for every maxRetries, also maxRetries <= 0, withRetry invokes fn at
\* least once before it rejects; it never rejects without having attempted
\* the operation.
C30_RejectsOnlyAfterAnAttempt ==
  retry.pc = "rejected" => retry.fnCalls >= 1 /\ retry.outcome.error # UnknownError

====
